---- MODULE Spec2Model ----
(***************************************************************************)
(* Model of the Jira MCP server: the request helper jira_api_request       *)
(* (jira_api_tools/general.py), the tool functions built on it             *)
(* (general.py, project.py, issue.py) and the start-up of server.py.       *)
(*                                                                         *)
(* Python values are tagged with their Python type, so that a decoded JSON *)
(* body, a descriptor dictionary and None can be told apart:               *)
(*   [t |-> "None"], [t |-> "str", v |-> s], [t |-> "int", v |-> n],       *)
(*   [t |-> "bool", v |-> b], [t |-> "list", v |-> <<...>>],               *)
(*   [t |-> "dict", v |-> [key |-> value, ...]].                           *)
(***************************************************************************)
EXTENDS Integers, Sequences, FiniteSets, TLC

VARIABLES
    phase,      \* position of server.py: "import", "dotenv", "serving"
    environ,    \* os.environ, restricted to the four variables the helper reads
    JIRA_AUTH,  \* the module-level HTTPBasicAuth object of general.py
    startEnviron, \* history: os.environ as it was when start-up ended
    live,       \* the worker slots on which the MCP host runs tool invocations
    pc,         \* per slot: "idle", "wait" (blocked in requests.request), "done"
    call,       \* per slot: the tool invoked and its arguments
    sent,       \* per slot: the HTTP requests this invocation has sent, in order
    recv,       \* per slot: the HTTP responses this invocation has received
    results,    \* per slot: what jira_api_request returned for each response
    outcome,    \* per slot: what the invocation returned or raised
    nEnv,       \* number of changes made to the environment while serving
    nCalls,      \* number of invocations started
    logEnviron, \* os.environ, restricted to LOG_LEVEL and LOG_FILE
    handlers,   \* logging.getLogger().handlers, the handlers of the root logger
    level,      \* the level of the root logger
    setupOutcome, \* how the last call of setup_logging ended
    nSetup      \* number of calls of setup_logging so far

\* the variables of the root logger and its configuration
logvars == <<logEnviron, handlers, level, setupOutcome, nSetup>>

\* the variables of the server and its tool invocations
srvvars == <<phase, environ, JIRA_AUTH, startEnviron, live, pc, call, sent, recv, results, outcome, nEnv, nCalls>>

vars == <<srvvars, logvars>>

---------------------------------------------------------------------------
(* Bounds of the model *)

MaxEnvChanges == 1

MaxCalls == 2

MaxLabels == 2

MaxSetupCalls == 3

\* the worker slots of the MCP host
Procs == {1, 2}

---------------------------------------------------------------------------
(* Python values *)

PyNone == [t |-> "None"]

PyStr(s) == [t |-> "str", v |-> s]

PyInt(n) == [t |-> "int", v |-> n]

PyBool(b) == [t |-> "bool", v |-> b]

PyList(s) == [t |-> "list", v |-> s]

PyDict(f) == [t |-> "dict", v |-> f]

\* Python truth value of x, as used by `if x:` and `x or y`
Truthy(x) ==
    CASE x.t = "None" -> FALSE
      [] x.t = "str"  -> x.v # ""
      [] x.t = "int"  -> x.v # 0
      [] x.t = "bool" -> x.v
      [] x.t = "list" -> Len(x.v) > 0
      [] x.t = "dict" -> DOMAIN x.v # {}

\* x or y
PyOr(x, y) == IF Truthy(x) THEN x ELSE y

\* what a function does: return a value or raise an exception
Return(val) == [kind |-> "return", value |-> val]

Raise(exc) == [kind |-> "raise", exc |-> exc]

NoOutcome == [kind |-> "none"]

---------------------------------------------------------------------------
(* The process environment and the .env file *)

Absent == "<absent>"

EnvNames == {"JIRA_BASE_URL", "JIRA_USER", "JIRA_API_KEY", "REQUESTS_TIMEOUT"}

\* os.getenv(name): None when the variable is not set
getenv(name) == IF environ[name] = Absent THEN PyNone ELSE PyStr(environ[name])

\* str(x) for x a str or None
str(x) == IF x.t = "None" THEN "None" ELSE x.v

\* int(x) for x a str or None: TypeError on None, ValueError on a non-number
int(x) ==
    CASE x.t = "None" -> Raise("TypeError")
      [] x.t = "str" /\ x.v = "30" -> Return(30)
      [] x.t = "str" /\ x.v = "5" -> Return(5)
      [] OTHER -> Raise("ValueError")

\* the variables exported to the process before it starts
ProcessEnvSet ==
    [JIRA_BASE_URL |-> "https://org.atlassian.net/rest/api/3/",
     JIRA_USER |-> "alice", JIRA_API_KEY |-> "token-a", REQUESTS_TIMEOUT |-> "30"]

ProcessEnvUnset == [n \in EnvNames |-> Absent]

\* the same, with a base URL that does not end in "/"
ProcessEnvNoSlash ==
    [ProcessEnvSet EXCEPT !["JIRA_BASE_URL"] = "https://org.atlassian.net/rest/api/3"]

\* the .env file in the working directory
DotEnvFile ==
    [JIRA_BASE_URL |-> "https://org.atlassian.net/rest/api/3/",
     JIRA_USER |-> "dot-user", JIRA_API_KEY |-> "dot-token", REQUESTS_TIMEOUT |-> "30"]

\* the values a later change of the environment may give a variable
EnvValues(name) ==
    CASE name = "JIRA_BASE_URL" -> {"https://other.example.com/jira/"}
      [] name = "JIRA_USER" -> {"mallory"}
      [] name = "JIRA_API_KEY" -> {"token-m"}
      [] name = "REQUESTS_TIMEOUT" -> {"5", Absent}

---------------------------------------------------------------------------
(* urllib.parse.urljoin, on URLs split at "/" *)

\* urlparse of the base URLs the environment can hold: scheme, netloc and
\* the path split at "/"
urlparse(s) ==
    CASE s = "https://org.atlassian.net/rest/api/3/" ->
            [scheme |-> "https", netloc |-> "org.atlassian.net",
             path |-> <<"", "rest", "api", "3", "">>]
      [] s = "https://org.atlassian.net/rest/api/3" ->
            [scheme |-> "https", netloc |-> "org.atlassian.net",
             path |-> <<"", "rest", "api", "3">>]
      [] s = "https://other.example.com/jira/" ->
            [scheme |-> "https", netloc |-> "other.example.com",
             path |-> <<"", "jira", "">>]
      [] OTHER -> [scheme |-> "", netloc |-> "", path |-> <<s>>]

\* s.split("/") of the strings used as keys in endpoints
split(s) ==
    CASE s = "../../../admin" -> <<"..", "..", "..", "admin">>
      [] s = "/rest/agile" -> <<"", "rest", "agile">>
      [] OTHER -> <<s>>

\* an endpoint is a relative reference: scheme and netloc (empty when it has
\* none) and the path split at "/"
RelPath(segs) == [scheme |-> "", netloc |-> "", path |-> segs]

\* segments[1:-1] = filter(None, segments[1:-1])
RECURSIVE FilterInner(_, _)
FilterInner(segs, i) ==
    IF i > Len(segs) THEN <<>>
    ELSE IF i # 1 /\ i # Len(segs) /\ segs[i] = "" THEN FilterInner(segs, i + 1)
    ELSE <<segs[i]>> \o FilterInner(segs, i + 1)

\* the loop over segments that resolves "." and ".."
RECURSIVE Resolve(_, _, _)
Resolve(segs, i, acc) ==
    IF i > Len(segs) THEN acc
    ELSE IF segs[i] = ".." THEN
        Resolve(segs, i + 1, IF Len(acc) > 0 THEN SubSeq(acc, 1, Len(acc) - 1) ELSE acc)
    ELSE IF segs[i] = "." THEN Resolve(segs, i + 1, acc)
    ELSE Resolve(segs, i + 1, Append(acc, segs[i]))

\* variant of urljoin: an endpoint with a scheme or a leading "/" replaces
\* the path of the base, and any other endpoint is appended to it
urljoinAppend(base, url) ==
    LET b == urlparse(base)
    IN  IF url.scheme # "" \/ (url.path[1] = "" /\ Len(url.path) > 1)
        THEN [b EXCEPT !.path = url.path]
        ELSE [b EXCEPT !.path =
                 (IF b.path[Len(b.path)] = "" THEN SubSeq(b.path, 1, Len(b.path) - 1)
                  ELSE b.path) \o url.path]

\* urllib.parse.urljoin(base, url), for a base that allows relative
\* references
urljoin(base, url) ==
    LET b == urlparse(base)
        scheme == IF url.scheme = "" THEN b.scheme ELSE url.scheme
    IN  IF scheme # b.scheme THEN url
        ELSE IF url.netloc # "" THEN [url EXCEPT !.scheme = scheme]
        ELSE IF url.path = <<"">> THEN b
        ELSE
            LET base_parts ==
                    IF b.path[Len(b.path)] # "" THEN SubSeq(b.path, 1, Len(b.path) - 1)
                    ELSE b.path
                segments ==
                    IF url.path[1] = "" /\ Len(url.path) > 1 THEN url.path
                    ELSE FilterInner(base_parts \o url.path, 1)
                resolved == Resolve(segments, 1, <<>>)
                last == segments[Len(segments)]
            IN  [scheme |-> scheme, netloc |-> b.netloc,
                 path |-> IF last \in {".", ".."} THEN Append(resolved, "") ELSE resolved]

---------------------------------------------------------------------------
(* HTTP responses and requests.Response *)

Resp(code, reason, text) == [status_code |-> code, reason |-> reason, text |-> text]

JsonObjectBody == "{\"key\":\"X\"}"

PrioritiesBody == "[{\"id\":\"1\",\"name\":\"High\"},{\"id\":\"2\",\"name\":\"Low\"}]"

ErrorJsonBody == "{\"errorMessages\":[\"denied\"]}"

PriorityHigh == PyDict([id |-> PyStr("1"), name |-> PyStr("High")])

PriorityLow == PyDict([id |-> PyStr("2"), name |-> PyStr("Low")])

PriorityUrgent == PyDict([id |-> PyStr("9"), name |-> PyStr("Urgent")])

PriorityNoName == PyDict([id |-> PyStr("1")])

\* the responses the Jira server may give to a request
Responses ==
    { Resp(200, "OK", JsonObjectBody),
      Resp(200, "OK", PrioritiesBody),
      Resp(200, "OK", "plain text"),
      Resp(204, "No Content", ""),
      Resp(304, "Not Modified", ""),
      Resp(404, "Not Found", "not found"),
      Resp(401, "Unauthorized", ErrorJsonBody) }

\* Response.ok: raise_for_status() raises for 400..599 only
ok(resp) == ~(400 <= resp.status_code /\ resp.status_code < 600)

\* Response.json(): the decoded body, or JSONDecodeError
json(resp) ==
    CASE resp.text = JsonObjectBody -> Return(PyDict([key |-> PyStr("X")]))
      [] resp.text = PrioritiesBody -> Return(PyList(<<PriorityHigh, PriorityLow>>))
      [] resp.text = ErrorJsonBody ->
            Return(PyDict([errorMessages |-> PyList(<<PyStr("denied")>>)]))
      [] OTHER -> Raise("JSONDecodeError")

---------------------------------------------------------------------------
(* jira_api_request *)

GET == "GET"

POST == "POST"

PUT == "PUT"

DELETE == "DELETE"

\* the arguments of one call of jira_api_request; the endpoint of a tool is
\* a path without scheme or host, given by its segments
ApiCall(method, endpoint, headers, params, payload) ==
    [method |-> method, endpoint |-> RelPath(endpoint), headers |-> headers,
     params |-> params, payload |-> payload]

DefaultHeaders == PyDict([Accept |-> PyStr("application/json")])

JsonHeaders ==
    PyDict(("Accept" :> PyStr("application/json")) @@
           ("Content-Type" :> PyStr("application/json")))

\* the dictionary built from a response
Descriptor(resp) ==
    PyDict([successful |-> PyBool(ok(resp)),
            status_code |-> PyInt(resp.status_code),
            text |-> PyStr(resp.text),
            reason |-> PyStr(resp.reason)])

\* variant of RequestArgs: the credentials object is rebuilt from the
\* environment at every call
RequestArgsFreshAuth(c) ==
    LET url == urljoin(str(getenv("JIRA_BASE_URL")), c.endpoint)
        headers == PyOr(c.headers, DefaultHeaders)
        timeout == int(getenv("REQUESTS_TIMEOUT"))
    IN  IF timeout.kind = "raise" THEN timeout
        ELSE IF url.scheme = "" THEN Raise("MissingSchema")
        ELSE Return([method |-> c.method, url |-> url, headers |-> headers,
                     params |-> c.params, json |-> c.payload,
                     auth |-> [username |-> str(getenv("JIRA_USER")),
                               password |-> str(getenv("JIRA_API_KEY"))],
                     timeout |-> timeout.value])

\* lines 36-48: the arguments of requests.request, evaluated in order; the
\* timeout is converted before requests.request is entered, and
\* requests.request refuses a URL without a scheme before sending anything
RequestArgs(c) ==
    LET url == urljoin(str(getenv("JIRA_BASE_URL")), c.endpoint)
        headers == PyOr(c.headers, DefaultHeaders)
        timeout == int(getenv("REQUESTS_TIMEOUT"))
    IN  IF timeout.kind = "raise" THEN timeout
        ELSE IF url.scheme = "" THEN Raise("MissingSchema")
        ELSE Return([method |-> c.method, url |-> url, headers |-> headers,
                     params |-> c.params, json |-> c.payload,
                     auth |-> JIRA_AUTH, timeout |-> timeout.value])

\* variant of Wire: the request is sent a second time
WireRetry(req) == <<req, req>>

\* the requests jira_api_request puts on the wire for one call: the single
\* requests.request call of lines 40-48
Wire(req) == <<req>>

\* the faults requests.request raises when no response arrives: DNS failure
\* or connection refused, and the timeout
TransportFaults == {"ConnectionError", "Timeout"}

\* variant of OnTransportFault: the fault is caught and turned into a
\* descriptor
OnTransportFaultCaught(exc) ==
    Return(PyDict([successful |-> PyBool(FALSE), status_code |-> PyInt(0),
                   text |-> PyStr(exc), reason |-> PyStr(exc)]))

\* lines 40-48: requests.request is called outside any try, so what it
\* raises leaves jira_api_request
OnTransportFault(exc) == Raise(exc)

\* variant of OnOk: the decoded body is wrapped in an envelope
OnOkEnvelope(resp) ==
    LET decoded == json(resp)
    IN  IF decoded.kind = "return"
        THEN Return(PyDict([successful |-> PyBool(TRUE), data |-> decoded.value]))
        ELSE Return(Descriptor(resp))

\* variant of OnOk: JSONDecodeError is not caught
OnOkUncaught(resp) == json(resp)

\* lines 52-61: the branch taken when response.ok
OnOk(resp) ==
    LET decoded == json(resp)
    IN  IF decoded.kind = "return" THEN Return(decoded.value)
        ELSE Return(Descriptor(resp))

\* variant of OnNotOk: the body of a failure is decoded when it is JSON
OnNotOkDecoding(resp) ==
    LET decoded == json(resp)
    IN  IF decoded.kind = "return" THEN Return(decoded.value)
        ELSE Return(Descriptor(resp))

\* lines 62-69: the branch taken otherwise
OnNotOk(resp) == Return(Descriptor(resp))

\* lines 50-69: what jira_api_request does with the response
jira_api_response(resp) == IF ok(resp) THEN OnOk(resp) ELSE OnNotOk(resp)

---------------------------------------------------------------------------
(* The tool functions.  A tool is given by what it does next, as a function *)
(* of its arguments a and of the values rs that its calls of               *)
(* jira_api_request have returned so far: call jira_api_request again,     *)
(* return a value, or raise.                                               *)

Request(c) == [kind |-> "request", call |-> c]

\* variant of Single: the value of the call is returned inside a dictionary
SingleWrapped(c, rs) ==
    IF Len(rs) = 0 THEN Request(c) ELSE Return(PyDict([result |-> rs[1]]))

\* return jira_api_request(...): one call, whose value is returned
Single(c, rs) == IF Len(rs) = 0 THEN Request(c) ELSE Return(rs[1])

\* variant of ADF: the paragraph of an empty text holds no text node
ADFSkipEmpty(text) ==
    PyDict([content |-> PyList(<<
                PyDict([content |-> PyList(IF text.v = "" THEN <<>>
                                           ELSE <<PyDict([text |-> text,
                                                          type |-> PyStr("text")])>>),
                        type |-> PyStr("paragraph")]) >>),
            type |-> PyStr("doc"),
            version |-> PyInt(1)])

\* the Atlassian Document Format structure wrapped around a text
ADF(text) ==
    PyDict([content |-> PyList(<<
                PyDict([content |-> PyList(<<
                            PyDict([text |-> text, type |-> PyStr("text")]) >>),
                        type |-> PyStr("paragraph")]) >>),
            type |-> PyStr("doc"),
            version |-> PyInt(1)])

\* d.update({k: val}) when cond holds
UpdateIf(cond, d, k, val) == IF cond THEN (k :> val) @@ d ELSE d

\* x in c for a dictionary x: equality with an element of a list; hashing x
\* (TypeError) for a dictionary c; TypeError for a str, a number or None
PyIn(x, c) ==
    IF c.t = "list" THEN Return(\E i \in 1..Len(c.v) : c.v[i] = x)
    ELSE Raise("TypeError")

get_projects(a, rs) == Single(ApiCall(GET, <<"project">>, PyNone, PyNone, PyNone), rs)

get_priorities_call == ApiCall(GET, <<"priority">>, PyNone, PyNone, PyNone)

get_priorities(a, rs) == Single(get_priorities_call, rs)

get_labels(a, rs) ==
    Single(ApiCall(GET, <<"label">>, PyNone, PyDict([maxResults |-> a.max_results]), PyNone), rs)

get_issue_statuses(a, rs) == Single(ApiCall(GET, <<"status">>, PyNone, PyNone, PyNone), rs)

get_current_user(a, rs) == Single(ApiCall(GET, <<"myself">>, PyNone, PyNone, PyNone), rs)

get_project_users(a, rs) ==
    Single(ApiCall(GET, <<"user", "assignable", "multiProjectSearch">>, PyNone,
                   PyDict([projectKeys |-> a.project_keys]), PyNone), rs)

\* variant of get_project_issues: the project is sent as projectKeys
get_project_issues_ByKeys(a, rs) ==
    Single(ApiCall(GET, <<"issue", "picker">>, PyNone,
                   PyDict([projectKeys |-> a.project_key]), PyNone), rs)

get_project_issues(a, rs) ==
    Single(ApiCall(GET, <<"issue", "picker">>, PyNone,
                   PyDict([currentProjectId |-> a.project_key]), PyNone), rs)

get_project_issue_types(a, rs) ==
    Single(ApiCall(GET, <<"issue", "createmeta">> \o split(a.project_key.v) \o <<"issuetypes">>,
                   PyNone, PyDict([maxResults |-> a.max_results]), PyNone), rs)

get_issue_creation_metadata(a, rs) ==
    Single(ApiCall(GET, <<"issue", "createmeta">> \o split(a.project_key.v)
                            \o <<"issuetypes">> \o split(a.issue_type_id.v),
                   PyNone, PyDict([maxResults |-> a.max_results]), PyNone), rs)

\* variant of create_issue: the five optional keys are always put in fields
create_issue_AllKeys(a, rs) ==
    Single(ApiCall(POST, <<"issue">>, JsonHeaders, PyNone,
                   PyDict([fields |-> PyDict(
                       [project |-> PyDict([key |-> a.project_key]),
                        summary |-> a.title,
                        issuetype |-> PyDict([name |-> a.issuetype]),
                        description |-> ADF(a.description),
                        duedate |-> a.duedate,
                        assignee |-> PyDict([id |-> a.assignee_id]),
                        labels |-> a.labels,
                        priority |-> PyDict([id |-> a.priority_id]),
                        reporter |-> PyDict([id |-> a.reporter_id])])])), rs)

\* variant of create_issue: an optional key is put in fields whenever its
\* argument is not None
create_issue_NotNone(a, rs) ==
    LET f0 == [project |-> PyDict([key |-> a.project_key]),
               summary |-> a.title,
               issuetype |-> PyDict([name |-> a.issuetype]),
               description |-> ADF(a.description)]
        f1 == UpdateIf(a.duedate.t # "None", f0, "duedate", a.duedate)
        f2 == UpdateIf(a.assignee_id.t # "None", f1, "assignee",
                       PyDict([id |-> a.assignee_id]))
        f3 == UpdateIf(a.labels.t # "None", f2, "labels", a.labels)
        f4 == UpdateIf(a.priority_id.t # "None", f3, "priority",
                       PyDict([id |-> a.priority_id]))
        f5 == UpdateIf(a.reporter_id.t # "None", f4, "reporter",
                       PyDict([id |-> a.reporter_id]))
    IN  Single(ApiCall(POST, <<"issue">>, JsonHeaders, PyNone,
                       PyDict([fields |-> PyDict(f5)])), rs)

create_issue(a, rs) ==
    LET f0 == [project |-> PyDict([key |-> a.project_key]),
               summary |-> a.title,
               issuetype |-> PyDict([name |-> a.issuetype]),
               description |-> ADF(a.description)]
        f1 == UpdateIf(Truthy(a.duedate), f0, "duedate", a.duedate)
        f2 == UpdateIf(Truthy(a.assignee_id), f1, "assignee", PyDict([id |-> a.assignee_id]))
        f3 == UpdateIf(Truthy(a.labels), f2, "labels", a.labels)
        f4 == UpdateIf(Truthy(a.priority_id), f3, "priority", PyDict([id |-> a.priority_id]))
        f5 == UpdateIf(Truthy(a.reporter_id), f4, "reporter", PyDict([id |-> a.reporter_id]))
    IN  Single(ApiCall(POST, <<"issue">>, JsonHeaders, PyNone,
                       PyDict([fields |-> PyDict(f5)])), rs)

get_issue(a, rs) ==
    Single(ApiCall(GET, <<"issue">> \o split(a.issue_key.v), PyNone, a.query_params, PyNone), rs)

\* variant of edit_issue: the value is sent without its action
edit_issue_NoAction(issue_key, value_key, value_to_update, action) ==
    ApiCall(PUT, <<"issue">> \o split(issue_key.v), JsonHeaders, PyNone,
            PyDict([update |-> PyDict(value_key :> value_to_update)]))

\* the call of jira_api_request that edit_issue makes
edit_issue(issue_key, value_key, value_to_update, action) ==
    ApiCall(PUT, <<"issue">> \o split(issue_key.v), JsonHeaders, PyNone,
            PyDict([update |-> PyDict(value_key :>
                        (IF Truthy(action)
                         THEN PyList(<<PyDict(action.v :> value_to_update)>>)
                         ELSE value_to_update))]))

change_issue_title(a, rs) ==
    Single(edit_issue(a.issue_key, "summary", a.new_title, PyStr("set")), rs)

change_issue_description(a, rs) ==
    Single(edit_issue(a.issue_key, "description", ADF(a.new_description), PyStr("set")), rs)

change_issue_reporter(a, rs) ==
    IF "displayName" \notin DOMAIN a.user.v THEN Raise("KeyError")
    ELSE Single(edit_issue(a.issue_key, "reporter", a.user, PyStr("set")), rs)

NotSupportedPriority ==
    PyDict([successful |-> PyBool(FALSE),
            status_code |-> PyInt(406),
            text |-> PyStr("Not supported priority. Use get_priorities() to get the allowed priorities."),
            reason |-> PyStr("Priority was checked against get_priorities() and it was not part of them.")])

\* variant of PriorityAllowed: every priority is let through
PriorityAllowedUnchecked(new_priority, priorities) == Return(TRUE)

\* line 267: the test made on the value of get_priorities()
PriorityAllowed(new_priority, priorities) == PyIn(new_priority, priorities)

\* variant of change_issue_priority: the priority is checked after the edit
change_issue_priority_LateCheck(a, rs) ==
    IF "name" \notin DOMAIN a.new_priority.v THEN Raise("KeyError")
    ELSE IF Len(rs) = 0 THEN Request(get_priorities_call)
    ELSE IF Len(rs) = 1
         THEN Request(edit_issue(a.issue_key, "priority", a.new_priority, PyStr("set")))
    ELSE LET allowed == PyIn(a.new_priority, rs[1])
         IN  IF allowed.kind = "raise" THEN allowed
             ELSE IF ~allowed.value THEN Return(NotSupportedPriority)
             ELSE Return(rs[2])

change_issue_priority(a, rs) ==
    IF "name" \notin DOMAIN a.new_priority.v THEN Raise("KeyError")
    ELSE IF Len(rs) = 0 THEN Request(get_priorities_call)
    ELSE LET allowed == PriorityAllowed(a.new_priority, rs[1])
         IN  IF allowed.kind = "raise" THEN allowed
             ELSE IF ~allowed.value THEN Return(NotSupportedPriority)
             ELSE IF Len(rs) = 1
                  THEN Request(edit_issue(a.issue_key, "priority", a.new_priority, PyStr("set")))
                  ELSE Return(rs[2])

change_issue_environment(a, rs) ==
    Single(edit_issue(a.issue_key, "environment", ADF(a.new_environment), PyStr("set")), rs)

\* variant of LabelOps: one entry that holds the whole list
LabelOpsOneEntry(action, labels) == PyList(<<PyDict(action :> labels)>>)

\* [{action: label} for label in labels]
LabelOps(action, labels) ==
    PyList([i \in 1..Len(labels.v) |-> PyDict(action :> labels.v[i])])

add_issue_labels(a, rs) ==
    Single(edit_issue(a.issue_key, "labels", LabelOps("add", a.new_labels), PyNone), rs)

\* variant of change_issue_labels: the labels are added to those of the issue
change_issue_labels_AsAdd(a, rs) ==
    Single(edit_issue(a.issue_key, "labels", LabelOps("add", a.new_labels), PyNone), rs)

change_issue_labels(a, rs) ==
    Single(edit_issue(a.issue_key, "labels", a.new_labels, PyStr("set")), rs)

remove_issue_labels(a, rs) ==
    Single(edit_issue(a.issue_key, "labels", LabelOps("remove", a.labels), PyNone), rs)

update_issue_duedate(a, rs) ==
    Single(edit_issue(a.issue_key, "duedate", a.new_duedate, PyStr("set")), rs)

get_issue_link_types(a, rs) ==
    Single(ApiCall(GET, <<"issueLinkType">>, PyNone, PyNone, PyNone), rs)

\* the call of jira_api_request that comment_issue makes
comment_issue_call(issue_key, comment) ==
    ApiCall(POST, <<"issue">> \o split(issue_key.v) \o <<"comment">>, JsonHeaders, PyNone,
            PyDict([body |-> ADF(comment)]))

comment_issue(a, rs) == Single(comment_issue_call(a.issue_key, a.comment), rs)

\* variant of LinkPreCalls: the comment is posted whether or not one is given
LinkPreCallsAlways(a) ==
    <<comment_issue_call(a.receiver_issue, a.comment_on_receiver_issue)>>

\* lines 497-499: the calls of jira_api_request made before the issueLink one
LinkPreCalls(a) ==
    IF Truthy(a.comment_on_receiver_issue)
    THEN <<comment_issue_call(a.receiver_issue, a.comment_on_receiver_issue)>>
    ELSE <<>>

\* variant of link_issues: the comment for the action issue is posted like
\* the one for the receiver, and the body holds the three keys only
link_issues_NoEmbedded(a, rs) ==
    LET calls == LinkPreCalls(a) \o
                 (IF Truthy(a.comment_on_action_issue)
                  THEN <<comment_issue_call(a.action_issue, a.comment_on_action_issue)>>
                  ELSE <<>>) \o
                 <<ApiCall(POST, <<"issueLink">>, JsonHeaders, PyNone,
                           PyDict([inwardIssue |-> PyDict([key |-> a.action_issue]),
                                   outwardIssue |-> PyDict([key |-> a.receiver_issue]),
                                   type |-> PyDict([name |-> a.link_type])]))>>
    IN  IF Len(rs) < Len(calls) THEN Request(calls[Len(rs) + 1])
        ELSE Return(rs[Len(rs)])

\* variant of link_issues: a failure descriptor of the comment request is
\* returned, and the issueLink request is not made
link_issues_CommentChecked(a, rs) ==
    LET p0 == [inwardIssue |-> PyDict([key |-> a.action_issue]),
               outwardIssue |-> PyDict([key |-> a.receiver_issue]),
               type |-> PyDict([name |-> a.link_type])]
        payload == UpdateIf(Truthy(a.comment_on_action_issue), p0, "comment",
                            PyDict([body |-> ADF(a.comment_on_action_issue)]))
        calls == LinkPreCalls(a) \o
                 <<ApiCall(POST, <<"issueLink">>, JsonHeaders, PyNone, PyDict(payload))>>
    IN  IF /\ Len(calls) = 2
           /\ Len(rs) = 1
           /\ rs[1].t = "dict"
           /\ "successful" \in DOMAIN rs[1].v
        THEN Return(rs[1])
        ELSE IF Len(rs) < Len(calls) THEN Request(calls[Len(rs) + 1])
        ELSE Return(rs[Len(rs)])

link_issues(a, rs) ==
    LET p0 == [inwardIssue |-> PyDict([key |-> a.action_issue]),
               outwardIssue |-> PyDict([key |-> a.receiver_issue]),
               type |-> PyDict([name |-> a.link_type])]
        payload == UpdateIf(Truthy(a.comment_on_action_issue), p0, "comment",
                            PyDict([body |-> ADF(a.comment_on_action_issue)]))
        calls == LinkPreCalls(a) \o
                 <<ApiCall(POST, <<"issueLink">>, JsonHeaders, PyNone, PyDict(payload))>>
    IN  IF Len(rs) < Len(calls) THEN Request(calls[Len(rs) + 1])
        ELSE Return(rs[Len(rs)])

delete_issues_link(a, rs) ==
    Single(ApiCall(DELETE, <<"issueLink">> \o split(a.link_id.v), PyNone, PyNone, PyNone), rs)

delete_issue(a, rs) ==
    Single(ApiCall(DELETE, <<"issue">> \o split(a.issue_key.v), PyNone, PyNone, PyNone), rs)

\* variant of assign_issue: the display name is read after the request
assign_issue_LogAfter(a, rs) ==
    IF Len(rs) = 0
    THEN Request(ApiCall(PUT, <<"issue">> \o split(a.issue_key.v) \o <<"assignee">>,
                         JsonHeaders, PyNone, a.user))
    ELSE IF "displayName" \notin DOMAIN a.user.v THEN Raise("KeyError")
    ELSE Return(rs[1])

assign_issue(a, rs) ==
    IF "displayName" \notin DOMAIN a.user.v THEN Raise("KeyError")
    ELSE Single(ApiCall(PUT, <<"issue">> \o split(a.issue_key.v) \o <<"assignee">>,
                        JsonHeaders, PyNone, a.user), rs)

---------------------------------------------------------------------------
(* The tools registered with the MCP server, and the invocations a client *)
(* makes of them                                                           *)

\* the tools list of server.py
mcp_tools ==
    { "get_projects", "get_priorities", "get_labels", "get_issue_statuses",
      "get_current_user", "get_project_users", "get_project_issues",
      "get_project_issue_types", "get_issue_creation_metadata", "create_issue",
      "get_issue", "change_issue_title", "change_issue_description",
      "change_issue_reporter", "change_issue_priority", "change_issue_environment",
      "add_issue_labels", "change_issue_labels", "remove_issue_labels",
      "update_issue_duedate", "get_issue_link_types", "link_issues",
      "delete_issues_link", "delete_issue", "assign_issue", "comment_issue" }

\* what the tool of invocation a does next; the last two cases are the
\* helpers jira_api_request and edit_issue called by themselves
ToolStep(a, rs) ==
    CASE a.tool = "get_projects" -> get_projects(a, rs)
      [] a.tool = "get_priorities" -> get_priorities(a, rs)
      [] a.tool = "get_labels" -> get_labels(a, rs)
      [] a.tool = "get_issue_statuses" -> get_issue_statuses(a, rs)
      [] a.tool = "get_current_user" -> get_current_user(a, rs)
      [] a.tool = "get_project_users" -> get_project_users(a, rs)
      [] a.tool = "get_project_issues" -> get_project_issues(a, rs)
      [] a.tool = "get_project_issue_types" -> get_project_issue_types(a, rs)
      [] a.tool = "get_issue_creation_metadata" -> get_issue_creation_metadata(a, rs)
      [] a.tool = "create_issue" -> create_issue(a, rs)
      [] a.tool = "get_issue" -> get_issue(a, rs)
      [] a.tool = "change_issue_title" -> change_issue_title(a, rs)
      [] a.tool = "change_issue_description" -> change_issue_description(a, rs)
      [] a.tool = "change_issue_reporter" -> change_issue_reporter(a, rs)
      [] a.tool = "change_issue_priority" -> change_issue_priority(a, rs)
      [] a.tool = "change_issue_environment" -> change_issue_environment(a, rs)
      [] a.tool = "add_issue_labels" -> add_issue_labels(a, rs)
      [] a.tool = "change_issue_labels" -> change_issue_labels(a, rs)
      [] a.tool = "remove_issue_labels" -> remove_issue_labels(a, rs)
      [] a.tool = "update_issue_duedate" -> update_issue_duedate(a, rs)
      [] a.tool = "get_issue_link_types" -> get_issue_link_types(a, rs)
      [] a.tool = "link_issues" -> link_issues(a, rs)
      [] a.tool = "delete_issues_link" -> delete_issues_link(a, rs)
      [] a.tool = "delete_issue" -> delete_issue(a, rs)
      [] a.tool = "assign_issue" -> assign_issue(a, rs)
      [] a.tool = "comment_issue" -> comment_issue(a, rs)
      [] a.tool = "jira_api_request" ->
            Single([method |-> a.method, endpoint |-> a.endpoint, headers |-> a.headers,
                    params |-> a.params, payload |-> a.payload], rs)
      [] a.tool = "edit_issue" ->
            Single(edit_issue(a.issue_key, a.value_key, a.value_to_update, a.action), rs)

IssueKeys == {PyStr("ABC-1")}

ProjectKeys == {PyStr("PRJ")}

UserAlice == PyDict([accountId |-> PyStr("u1"), displayName |-> PyStr("Alice")])

UserNoDisplayName == PyDict([accountId |-> PyStr("u1")])

Users == {UserAlice, UserNoDisplayName}

LabelLists == {PyList(<<PyStr("a"), PyStr("b")>>)}

Texts == {PyStr("Desc")}

OptTexts == {PyNone, PyStr("note")}

NoArgTools ==
    {"get_projects", "get_priorities", "get_issue_statuses", "get_current_user",
     "get_issue_link_types"}

\* the invocations: a tool of the server with arguments of its declared types
Invocations ==
    [tool : NoArgTools]
    \cup [tool : {"get_labels"}, max_results : {PyInt(50)}]
    \cup [tool : {"get_project_users"}, project_keys : ProjectKeys]
    \cup [tool : {"get_project_issues"}, project_key : ProjectKeys]
    \cup [tool : {"get_project_issue_types"}, project_key : ProjectKeys,
          max_results : {PyInt(50)}]
    \cup [tool : {"get_issue_creation_metadata"}, project_key : ProjectKeys,
          issue_type_id : {PyStr("10001")}, max_results : {PyInt(100)}]
    \cup [tool : {"create_issue"}, project_key : ProjectKeys, title : {PyStr("Title")},
          description : Texts, issuetype : {PyStr("Task")},
          duedate : {PyNone}, assignee_id : {PyNone, PyStr("u1")},
          labels : {PyNone}, priority_id : {PyNone}, reporter_id : {PyNone}]
    \cup [tool : {"get_issue"}, issue_key : IssueKeys,
          query_params : {PyNone, PyDict([fields |-> PyStr("issuelinks")])}]
    \cup [tool : {"change_issue_title"}, issue_key : IssueKeys, new_title : {PyStr("Title")}]
    \cup [tool : {"change_issue_description"}, issue_key : IssueKeys, new_description : Texts]
    \cup [tool : {"change_issue_reporter"}, issue_key : IssueKeys, user : Users]
    \cup [tool : {"change_issue_priority"}, issue_key : IssueKeys,
          new_priority : {PriorityHigh, PriorityUrgent, PriorityNoName}]
    \cup [tool : {"change_issue_environment"}, issue_key : IssueKeys, new_environment : Texts]
    \cup [tool : {"add_issue_labels"}, issue_key : IssueKeys, new_labels : LabelLists]
    \cup [tool : {"change_issue_labels"}, issue_key : IssueKeys, new_labels : LabelLists]
    \cup [tool : {"remove_issue_labels"}, issue_key : IssueKeys, labels : LabelLists]
    \cup [tool : {"update_issue_duedate"}, issue_key : IssueKeys,
          new_duedate : {PyStr("2026-01-31")}]
    \cup [tool : {"link_issues"}, link_type : {PyStr("Blocks")}, action_issue : IssueKeys,
          receiver_issue : {PyStr("ABC-2")}, comment_on_action_issue : OptTexts,
          comment_on_receiver_issue : OptTexts]
    \cup [tool : {"delete_issues_link"}, link_id : {PyStr("10050")}]
    \cup [tool : {"delete_issue"}, issue_key : IssueKeys]
    \cup [tool : {"assign_issue"}, issue_key : IssueKeys, user : Users]
    \cup [tool : {"comment_issue"}, issue_key : IssueKeys, comment : Texts]

---------------------------------------------------------------------------
(* The state machine *)

NoCall == [tool |-> "none"]

\* nothing has configured logging: the root logger of a fresh interpreter
NoLogging ==
    /\ logEnviron = [LOG_LEVEL |-> Absent, LOG_FILE |-> Absent]
    /\ handlers = <<>>
    /\ level = "WARNING"
    /\ setupOutcome = NoOutcome
    /\ nSetup = 0

Idle ==
    /\ pc = [p \in Procs |-> "idle"]
    /\ call = [p \in Procs |-> NoCall]
    /\ sent = [p \in Procs |-> <<>>]
    /\ recv = [p \in Procs |-> <<>>]
    /\ results = [p \in Procs |-> <<>>]
    /\ outcome = [p \in Procs |-> NoOutcome]
    /\ nCalls = 0

\* the interpreter starts server.py with one of the two process environments;
\* the host runs one tool invocation at a time
Init ==
    /\ phase = "import"
    /\ environ \in {ProcessEnvSet, ProcessEnvUnset}
    /\ JIRA_AUTH = [username |-> "", password |-> ""]
    /\ startEnviron = environ
    /\ live = {1}
    /\ nEnv = 0
    /\ Idle
    /\ NoLogging

\* server.py line 12 executes general.py, whose line 11 builds JIRA_AUTH
ImportGeneral ==
    /\ phase = "import"
    /\ JIRA_AUTH' = [username |-> str(getenv("JIRA_USER")),
                     password |-> str(getenv("JIRA_API_KEY"))]
    /\ phase' = "dotenv"
    /\ UNCHANGED <<environ, startEnviron, live, pc, call, sent, recv, results, outcome, nEnv, nCalls, logvars>>

\* server.py line 45: load_dotenv() sets the variables the process lacks
load_dotenv ==
    /\ phase = "dotenv"
    /\ environ' = [n \in EnvNames |->
                      IF environ[n] = Absent THEN DotEnvFile[n] ELSE environ[n]]
    /\ startEnviron' = environ'
    /\ phase' = "serving"
    /\ UNCHANGED <<JIRA_AUTH, live, pc, call, sent, recv, results, outcome, nEnv, nCalls, logvars>>

\* something in the process sets or unsets one of the variables while the
\* server runs
EnvChange ==
    /\ phase = "serving"
    /\ nEnv < MaxEnvChanges
    /\ \E n \in EnvNames : \E val \in EnvValues(n) :
          /\ val # environ[n]
          /\ environ' = [environ EXCEPT ![n] = val]
    /\ nEnv' = nEnv + 1
    /\ UNCHANGED <<phase, JIRA_AUTH, startEnviron, live, pc, call, sent, recv, results, outcome, nCalls, logvars>>

\* variant of PriorResults: the values are kept in one place for all slots
PriorResultsShared(p) == results[1]

\* the values of its earlier calls that invocation p continues with
PriorResults(p) == results[p]

\* invocation p of a, holding the values rs, runs to its next call of
\* requests.request, or to its end
Advance(p, a, rs) ==
    LET step == ToolStep(a, rs)
        args == RequestArgs(step.call)
    IN  /\ results' = [results EXCEPT ![p] = rs]
        /\ IF step.kind = "request"
           THEN IF args.kind = "raise"
                THEN /\ outcome' = [outcome EXCEPT ![p] = args]
                     /\ pc' = [pc EXCEPT ![p] = "done"]
                     /\ UNCHANGED sent
                ELSE /\ sent' = [sent EXCEPT ![p] = sent[p] \o Wire(args.value)]
                     /\ pc' = [pc EXCEPT ![p] = "wait"]
                     /\ UNCHANGED outcome
           ELSE /\ outcome' = [outcome EXCEPT ![p] = step]
                /\ pc' = [pc EXCEPT ![p] = "done"]
                /\ UNCHANGED sent

\* the MCP host calls a tool on a free slot
Invoke(p) ==
    /\ phase = "serving"
    /\ p \in live
    /\ pc[p] = "idle"
    /\ nCalls < MaxCalls
    /\ \E a \in Invocations :
          /\ call' = [call EXCEPT ![p] = a]
          /\ Advance(p, a, <<>>)
    /\ nCalls' = nCalls + 1
    /\ UNCHANGED <<phase, environ, JIRA_AUTH, startEnviron, live, recv, nEnv, logvars>>

\* requests.request returns in invocation p with the server's response
Respond(p) ==
    /\ pc[p] = "wait"
    /\ \E r \in Responses :
          LET res == jira_api_response(r)
          IN  /\ recv' = [recv EXCEPT ![p] = Append(recv[p], r)]
              /\ IF res.kind = "raise"
                 THEN /\ outcome' = [outcome EXCEPT ![p] = res]
                      /\ pc' = [pc EXCEPT ![p] = "done"]
                      /\ UNCHANGED <<sent, results>>
                 ELSE Advance(p, call[p], Append(PriorResults(p), res.value))
    /\ UNCHANGED <<phase, environ, JIRA_AUTH, startEnviron, live, call, nEnv, nCalls, logvars>>

\* the host takes the outcome of invocation p; the slot is free again
Finish(p) ==
    /\ pc[p] = "done"
    /\ pc' = [pc EXCEPT ![p] = "idle"]
    /\ call' = [call EXCEPT ![p] = NoCall]
    /\ sent' = [sent EXCEPT ![p] = <<>>]
    /\ recv' = [recv EXCEPT ![p] = <<>>]
    /\ results' = [results EXCEPT ![p] = <<>>]
    /\ outcome' = [outcome EXCEPT ![p] = NoOutcome]
    /\ UNCHANGED <<phase, environ, JIRA_AUTH, startEnviron, live, nEnv, nCalls, logvars>>

Next ==
    \/ ImportGeneral
    \/ load_dotenv
    \/ EnvChange
    \/ \E p \in Procs : Invoke(p)
    \/ \E p \in Procs : Respond(p)
    \/ \E p \in Procs : Finish(p)

Spec == Init /\ [][Next]_vars

---------------------------------------------------------------------------
(* The tools called with any string as issue key, project key, issue type *)
(* id or link id                                                           *)

\* strings a client can pass as a key: a key of Jira, a path with ".."
\* segments, a path that begins with "/"
WideKeys == {PyStr("ABC-1"), PyStr("../../../admin"), PyStr("/rest/agile")}

KeyCalls ==
    [tool : {"get_issue"}, issue_key : WideKeys, query_params : {PyNone}]
    \cup [tool : {"delete_issue"}, issue_key : WideKeys]
    \cup [tool : {"delete_issues_link"}, link_id : WideKeys]
    \cup [tool : {"get_project_issue_types"}, project_key : WideKeys,
          max_results : {PyInt(50)}]
    \cup [tool : {"get_issue_creation_metadata"}, project_key : {PyStr("PRJ")},
          issue_type_id : WideKeys, max_results : {PyInt(100)}]
    \cup [tool : {"change_issue_title"}, issue_key : WideKeys, new_title : {PyStr("Title")}]
    \cup [tool : {"comment_issue"}, issue_key : WideKeys, comment : {PyStr("Desc")}]

\* the server runs with the base URL of the documentation, which ends in "/"
InitKeys ==
    /\ phase = "serving"
    /\ environ = ProcessEnvSet
    /\ JIRA_AUTH = [username |-> "alice", password |-> "token-a"]
    /\ startEnviron = environ
    /\ live = {1}
    /\ nEnv = 0
    /\ Idle
    /\ NoLogging

\* the MCP host calls a tool with one of these keys on a free slot
InvokeKey(p) ==
    /\ phase = "serving"
    /\ p \in live
    /\ pc[p] = "idle"
    /\ nCalls < MaxCalls
    /\ \E a \in KeyCalls :
          /\ call' = [call EXCEPT ![p] = a]
          /\ Advance(p, a, <<>>)
    /\ nCalls' = nCalls + 1
    /\ UNCHANGED <<phase, environ, JIRA_AUTH, startEnviron, live, recv, nEnv, logvars>>

NextKeys ==
    \/ \E p \in Procs : InvokeKey(p)
    \/ \E p \in Procs : Respond(p)
    \/ \E p \in Procs : Finish(p)

SpecKeys == InitKeys /\ [][NextKeys]_vars

---------------------------------------------------------------------------
(* The helpers and the tools called one at a time on a wide range of      *)
(* arguments                                                               *)

\* the endpoints given to jira_api_request: relative paths, a path that
\* begins with "/", a URL with scheme and host, a path with ".." segments
Endpoints ==
    { RelPath(<<"project">>),
      RelPath(<<"issue", "ABC-1">>),
      RelPath(<<"", "rest", "agile">>),
      [scheme |-> "https", netloc |-> "evil.example.com", path |-> <<"", "x">>],
      RelPath(<<"issue", "..", "..", "..", "admin">>) }

\* the headers given to jira_api_request
HeaderArgs ==
    { PyNone, PyDict(<<>>), JsonHeaders,
      PyDict("X-Atlassian-Token" :> PyStr("no-check")) }

LabelNames == {PyStr("a"), PyStr("b")}

\* the lists of at most MaxLabels labels
LabelSeqs == {PyList(l) : l \in UNION {[1..n -> LabelNames] : n \in 0..MaxLabels}}

WideTexts == {PyStr("Desc"), PyStr(""), PyStr("two\nlines")}

OptStr(val) == {PyNone, PyStr(""), PyStr(val)}

\* calls of the tools that send one request and shape no body
PlainCalls ==
    [tool : NoArgTools]
    \cup [tool : {"get_labels"}, max_results : {PyInt(50), PyInt(10)}]
    \cup [tool : {"get_project_users"}, project_keys : ProjectKeys]
    \cup [tool : {"get_project_issues"}, project_key : ProjectKeys]
    \cup [tool : {"get_project_issue_types"}, project_key : ProjectKeys,
          max_results : {PyInt(50), PyInt(10)}]
    \cup [tool : {"get_issue_creation_metadata"}, project_key : ProjectKeys,
          issue_type_id : {PyStr("10001")}, max_results : {PyInt(100), PyInt(10)}]
    \cup [tool : {"get_issue"}, issue_key : IssueKeys,
          query_params : {PyNone, PyDict([fields |-> PyStr("issuelinks")])}]
    \cup [tool : {"delete_issues_link"}, link_id : {PyStr("10050")}]
    \cup [tool : {"delete_issue"}, issue_key : IssueKeys]
    \cup [tool : {"assign_issue"}, issue_key : IssueKeys, user : {UserAlice}]

\* calls of jira_api_request and edit_issue by themselves, and calls of the
\* tools
UnitCalls ==
    PlainCalls \cup
    [tool : {"jira_api_request"}, method : {GET, POST, PUT, DELETE},
     endpoint : Endpoints, headers : HeaderArgs, params : {PyNone},
     payload : {PyNone, PyDict([k |-> PyStr("v")])}]
    \cup [tool : {"edit_issue"}, issue_key : IssueKeys, value_key : {"summary", "labels"},
          value_to_update : {PyStr("v"), PyList(<<>>)},
          action : {PyNone, PyStr(""), PyStr("set"), PyStr("add")}]
    \cup [tool : {"create_issue"}, project_key : ProjectKeys, title : {PyStr("Title")},
          description : WideTexts, issuetype : {PyStr("Task")},
          duedate : OptStr("2026-01-31"), assignee_id : OptStr("u1"),
          labels : {PyNone, PyList(<<>>), PyList(<<PyStr("a"), PyStr("b")>>)},
          priority_id : OptStr("3"), reporter_id : OptStr("u2")]
    \cup [tool : {"add_issue_labels", "change_issue_labels"}, issue_key : IssueKeys,
          new_labels : LabelSeqs]
    \cup [tool : {"remove_issue_labels"}, issue_key : IssueKeys, labels : LabelSeqs]
    \cup [tool : {"change_issue_title"}, issue_key : IssueKeys, new_title : WideTexts]
    \cup [tool : {"change_issue_description"}, issue_key : IssueKeys,
          new_description : WideTexts]
    \cup [tool : {"change_issue_environment"}, issue_key : IssueKeys,
          new_environment : WideTexts]
    \cup [tool : {"change_issue_reporter"}, issue_key : IssueKeys, user : {UserAlice}]
    \cup [tool : {"change_issue_priority"}, issue_key : IssueKeys,
          new_priority : {PriorityHigh, PriorityUrgent}]
    \cup [tool : {"update_issue_duedate"}, issue_key : IssueKeys,
          new_duedate : {PyStr("2026-01-31")}]
    \cup [tool : {"link_issues"}, link_type : {PyStr("Blocks")}, action_issue : IssueKeys,
          receiver_issue : {PyStr("ABC-2")}, comment_on_action_issue : OptStr("note"),
          comment_on_receiver_issue : OptStr("reply")]
    \cup [tool : {"comment_issue"}, issue_key : IssueKeys, comment : WideTexts]

InitUnit ==
    /\ phase = "serving"
    /\ environ \in {ProcessEnvSet, ProcessEnvNoSlash}
    /\ JIRA_AUTH = [username |-> "alice", password |-> "token-a"]
    /\ startEnviron = environ
    /\ live = {1}
    /\ nEnv = 0
    /\ Idle
    /\ NoLogging

\* one of the calls above is made on a free slot
Call(p) ==
    /\ phase = "serving"
    /\ p \in live
    /\ pc[p] = "idle"
    /\ nCalls < MaxCalls
    /\ \E a \in UnitCalls :
          /\ call' = [call EXCEPT ![p] = a]
          /\ Advance(p, a, <<>>)
    /\ nCalls' = nCalls + 1
    /\ UNCHANGED <<phase, environ, JIRA_AUTH, startEnviron, live, recv, nEnv, logvars>>

\* requests.request ends in invocation p without a response
TransportFault(p) ==
    /\ pc[p] = "wait"
    /\ \E exc \in TransportFaults :
          LET res == OnTransportFault(exc)
          IN  IF res.kind = "raise"
              THEN /\ outcome' = [outcome EXCEPT ![p] = res]
                   /\ pc' = [pc EXCEPT ![p] = "done"]
                   /\ UNCHANGED <<sent, results>>
              ELSE Advance(p, call[p], Append(PriorResults(p), res.value))
    /\ UNCHANGED <<phase, environ, JIRA_AUTH, startEnviron, live, call, recv, nEnv, nCalls, logvars>>

NextUnit ==
    \/ \E p \in Procs : Call(p)
    \/ \E p \in Procs : Respond(p)
    \/ \E p \in Procs : TransportFault(p)
    \/ \E p \in Procs : Finish(p)

SpecUnit == InitUnit /\ [][NextUnit]_vars

---------------------------------------------------------------------------
(* config/logging.py: setup_logging and the root logger *)

\* the level names logging knows
LogLevels == {"CRITICAL", "FATAL", "ERROR", "WARNING", "WARN", "INFO", "DEBUG", "NOTSET"}

\* s.upper() of the strings used as LOG_LEVEL
upper(s) ==
    CASE s = "debug" -> "DEBUG"
      [] s = "loud" -> "LOUD"
      [] OTHER -> s

\* the values LOG_LEVEL and LOG_FILE can have: unset, a level name in small
\* letters, a word that is no level; unset, empty, a file name
LogEnvValues(name) ==
    CASE name = "LOG_LEVEL" -> {Absent, "debug", "loud"}
      [] name = "LOG_FILE" -> {Absent, "", "app.log"}

\* os.path.join(dir, name) for a file name, as the components of the path
join(dir, name) == <<dir, name>>

LogFormat == "%(asctime)s - %(name)s - %(levelname)s - %(message)s"

FileHandler(path) ==
    [class |-> "FileHandler", baseFilename |-> path, formatter |-> LogFormat]

StreamHandler(stream) ==
    [class |-> "StreamHandler", stream |-> stream, formatter |-> LogFormat]

\* a handler some other module has put on the root logger
ForeignHandler == [class |-> "StreamHandler", stream |-> "stdout", formatter |-> "%(message)s"]

\* variant of ClearedHandlers: the handlers are kept
ClearedHandlersKept(hs) == hs

\* lines 31-32: the handlers are removed if there are any
ClearedHandlers(hs) == IF Len(hs) > 0 THEN <<>> ELSE hs

\* the state of the root logger when setup_logging is first called: with or
\* without a handler of another module
InitLog ==
    /\ phase = "serving"
    /\ environ = ProcessEnvSet
    /\ JIRA_AUTH = [username |-> "alice", password |-> "token-a"]
    /\ startEnviron = environ
    /\ live = {1}
    /\ nEnv = 0
    /\ Idle
    /\ \E l \in LogEnvValues("LOG_LEVEL") : \E f \in LogEnvValues("LOG_FILE") :
          logEnviron = [LOG_LEVEL |-> l, LOG_FILE |-> f]
    /\ handlers \in {<<>>, <<ForeignHandler>>}
    /\ level = "WARNING"
    /\ setupOutcome = NoOutcome
    /\ nSetup = 0

\* lines 25-52: one call of setup_logging.  setLevel raises ValueError for a
\* word that is no level, and FileHandler raises OSError when the file cannot
\* be opened; both come after the handlers were cleared
setup_logging ==
    /\ nSetup < MaxSetupCalls
    /\ LET log_level == upper(IF logEnviron["LOG_LEVEL"] = Absent THEN "INFO"
                              ELSE logEnviron["LOG_LEVEL"])
           log_file == logEnviron["LOG_FILE"]
           cleared == ClearedHandlers(handlers)
       IN  IF log_level \notin LogLevels
           THEN /\ handlers' = cleared
                /\ level' = level
                /\ setupOutcome' = Raise("ValueError")
           ELSE /\ level' = log_level
                /\ IF log_file \notin {Absent, ""}
                   THEN \E opened \in BOOLEAN :
                          IF opened
                          THEN /\ handlers' =
                                      Append(cleared, FileHandler(join("logs", log_file)))
                               /\ setupOutcome' = Return(PyNone)
                          ELSE /\ handlers' = cleared
                               /\ setupOutcome' = Raise("OSError")
                   ELSE /\ handlers' = Append(cleared, StreamHandler("stderr"))
                        /\ setupOutcome' = Return(PyNone)
    /\ nSetup' = nSetup + 1
    /\ UNCHANGED <<logEnviron, srvvars>>

\* LOG_LEVEL or LOG_FILE is set or unset between two calls
LogEnvChange ==
    /\ \E n \in DOMAIN logEnviron : \E val \in LogEnvValues(n) :
          /\ val # logEnviron[n]
          /\ logEnviron' = [logEnviron EXCEPT ![n] = val]
    /\ UNCHANGED <<handlers, level, setupOutcome, nSetup, srvvars>>

NextLog == setup_logging \/ LogEnvChange

SpecLog == InitLog /\ [][NextLog]_vars

\* the server is up, and the host runs invocations on both slots at once
InitConc ==
    /\ phase = "serving"
    /\ environ = ProcessEnvSet
    /\ JIRA_AUTH = [username |-> "alice", password |-> "token-a"]
    /\ startEnviron = environ
    /\ live = Procs
    /\ nEnv = 0
    /\ Idle
    /\ NoLogging

NextConc ==
    \/ \E p \in Procs : Invoke(p)
    \/ \E p \in Procs : Respond(p)
    \/ \E p \in Procs : Finish(p)

SpecConc == InitConc /\ [][NextConc]_vars

---------------------------------------------------------------------------
(* Properties *)

Is2xx(resp) == 200 <= resp.status_code /\ resp.status_code < 300

\* the descriptor of the specification for response resp, with a given flag
DescriptorWith(flag, resp) ==
    PyDict([successful |-> PyBool(flag),
            status_code |-> PyInt(resp.status_code),
            text |-> PyStr(resp.text),
            reason |-> PyStr(resp.reason)])

\* the i-th call of jira_api_request of slot p has returned a value
Returned(p, i) == i <= Len(results[p])

\* slot p holds a finished invocation of tool t that answered resps
Finished(p, t, resps) == pc[p] = "done" /\ call[p].tool = t /\ recv[p] = resps

\* C1: a call of jira_api_request whose response has a 2xx status and a body
\* that is valid JSON returns exactly the decoded body: no envelope, no key
\* added or removed.
C1_DecodedJsonReturned ==
    \A p \in Procs : \A i \in 1..Len(recv[p]) :
        (Is2xx(recv[p][i]) /\ json(recv[p][i]).kind = "return")
            => (Returned(p, i) /\ results[p][i] = json(recv[p][i]).value)

C1_Witness ==
    \E p \in Procs :
        /\ Finished(p, "get_issue", <<Resp(200, "OK", JsonObjectBody)>>)
        /\ outcome[p] = Return(PyDict([key |-> PyStr("X")]))

\* C2 (as claimed): a call of jira_api_request whose response status is not
\* 2xx returns the descriptor {successful: false, status_code, text, reason}.
C2_Non2xxGivesFailureDescriptor ==
    \A p \in Procs : \A i \in 1..Len(recv[p]) :
        ~Is2xx(recv[p][i])
            => (Returned(p, i) /\ results[p][i] = DescriptorWith(FALSE, recv[p][i]))

\* C2 (amended): a call of jira_api_request whose response status is in
\* 400..599 returns the descriptor {successful: false, status_code, text,
\* reason} of that response, whatever the body holds, valid JSON included.
C2_ErrorStatusGivesFailureDescriptor ==
    \A p \in Procs : \A i \in 1..Len(recv[p]) :
        (400 <= recv[p][i].status_code /\ recv[p][i].status_code < 600)
            => (Returned(p, i) /\ results[p][i] = DescriptorWith(FALSE, recv[p][i]))

C2_Witness ==
    \E p \in Procs :
        /\ Finished(p, "create_issue", <<Resp(401, "Unauthorized", ErrorJsonBody)>>)
        /\ outcome[p] = Return(DescriptorWith(FALSE, Resp(401, "Unauthorized", ErrorJsonBody)))

\* C3: a call of jira_api_request whose response has a 2xx status and a body
\* that is not JSON (the empty body of a 204 included) returns the descriptor
\* with successful: true and the status, text and reason of the response; the
\* decode failure raises nothing.
C3_UndecodableSuccessDescriptor ==
    \A p \in Procs : \A i \in 1..Len(recv[p]) :
        (Is2xx(recv[p][i]) /\ json(recv[p][i]).kind = "raise")
            => (Returned(p, i) /\ results[p][i] = DescriptorWith(TRUE, recv[p][i]))

C3_Witness ==
    \E p \in Procs :
        /\ Finished(p, "delete_issue", <<Resp(204, "No Content", "")>>)
        /\ outcome[p] = Return(DescriptorWith(TRUE, Resp(204, "No Content", "")))

\* slot p runs change_issue_priority, get_priorities() has returned a list,
\* and the priority asked for is not an element of it
PriorityNotListed(p) ==
    /\ call[p].tool = "change_issue_priority"
    /\ Len(results[p]) >= 1
    /\ results[p][1].t = "list"
    /\ \A i \in 1..Len(results[p][1].v) : results[p][1].v[i] # call[p].new_priority

NoPut(p) == \A j \in 1..Len(sent[p]) : sent[p][j].method # PUT

\* C4: change_issue_priority with a priority that is not an element of the
\* list returned by get_priorities() returns a descriptor with successful:
\* false and status_code 406 and never sends the PUT to issue/{key}.
C4_UnlistedPriorityRejected ==
    \A p \in Procs :
        PriorityNotListed(p)
            => /\ pc[p] = "done"
               /\ outcome[p].kind = "return"
               /\ outcome[p].value.t = "dict"
               /\ outcome[p].value.v.successful = PyBool(FALSE)
               /\ outcome[p].value.v.status_code = PyInt(406)
               /\ NoPut(p)

C4_Witness ==
    \E p \in Procs :
        /\ Finished(p, "change_issue_priority", <<Resp(200, "OK", PrioritiesBody)>>)
        /\ call[p].new_priority = PriorityUrgent
        /\ outcome[p] = Return(NotSupportedPriority)
        /\ NoPut(p)

\* C5 (as claimed): an invocation that ends in the 406 descriptor has sent no
\* HTTP request at all.
C5_RejectedBeforeAnyRequest ==
    \A p \in Procs : outcome[p] = Return(NotSupportedPriority) => sent[p] = <<>>

\* C5 (amended): an invocation of change_issue_priority that ends in the 406
\* descriptor has sent exactly one HTTP request, the GET priority of the
\* pre-check: the rejection is decided after that request and before any PUT.
C5_RejectedAfterPriorityGetOnly ==
    \A p \in Procs :
        outcome[p] = Return(NotSupportedPriority)
            => /\ Len(sent[p]) = 1
               /\ sent[p][1].method = GET
               /\ sent[p][1].url.path[Len(sent[p][1].url.path)] = "priority"

C5_Witness ==
    \E p \in Procs :
        /\ pc[p] = "done"
        /\ outcome[p] = Return(NotSupportedPriority)
        /\ Len(sent[p]) = 1
        /\ Len(recv[p]) = 1

\* C6 (as claimed): every invocation of a registered tool that has returned
\* has sent exactly one HTTP request.
C6_ExactlyOneRequest ==
    \A p \in Procs : (pc[p] = "done" /\ outcome[p].kind = "return") => Len(sent[p]) = 1

\* the number of requests of a returned invocation
RequestCount(p) ==
    CASE call[p].tool = "change_issue_priority" ->
            IF PriorityNotListed(p) THEN 1 ELSE 2
      [] call[p].tool = "link_issues" ->
            IF Truthy(call[p].comment_on_receiver_issue) THEN 2 ELSE 1
      [] OTHER -> 1

\* C6 (amended): an invocation of a registered tool that returns a value has
\* sent exactly one HTTP request, with two exceptions that send two:
\* change_issue_priority when the priority is in the list of its pre-check
\* (GET priority, then the PUT), and link_issues with a non-empty
\* comment_on_receiver_issue (the comment POST, then the issueLink POST).
C6_RequestsPerInvocation ==
    \A p \in Procs :
        (pc[p] = "done" /\ outcome[p].kind = "return")
            => (call[p].tool \in mcp_tools /\ Len(sent[p]) = RequestCount(p))

C6_Witness ==
    \E p \in Procs :
        /\ pc[p] = "done"
        /\ call[p].tool = "link_issues"
        /\ call[p].comment_on_receiver_issue = PyStr("note")
        /\ outcome[p].kind = "return"
        /\ Len(sent[p]) = 2
        /\ sent[p][1].method = POST
        /\ sent[p][2].method = POST

\* C7: each call of jira_api_request that reaches requests.request sends one
\* HTTP request, whatever the method and whatever the response: the requests
\* an invocation has sent are one per response it has received, plus the one
\* it is waiting on.
C7_OneRequestPerCall ==
    \A p \in Procs :
        Len(sent[p]) = Len(recv[p]) + (IF pc[p] = "wait" THEN 1 ELSE 0)

C7_Witness ==
    \E p \in Procs :
        /\ Finished(p, "delete_issues_link", <<Resp(404, "Not Found", "not found")>>)
        /\ Len(sent[p]) = 1
        /\ sent[p][1].method = DELETE

\* C8 (as claimed): an invocation all of whose HTTP exchanges completed, with
\* the configuration of start-up untouched, returns a value and raises
\* nothing, whatever the responses were.
C8_NoExceptionAfterExchanges ==
    \A p \in Procs :
        (pc[p] = "done" /\ Len(recv[p]) >= 1 /\ nEnv = 0)
            => outcome[p].kind = "return"

\* the last request slot p has sent, in the state after a step
LastSent(p) == sent'[p][Len(sent'[p])]

RECURSIVE RunAlone(_, _, _, _, _)
RunAlone(a, resps, i, rs, out) ==
    LET step == ToolStep(a, rs)
        args == RequestArgs(step.call)
        res == jira_api_response(resps[i])
    IN  IF step.kind # "request" THEN [sent |-> out, results |-> rs, outcome |-> step]
        ELSE IF args.kind = "raise" THEN [sent |-> out, results |-> rs, outcome |-> args]
        ELSE IF i > Len(resps)
             THEN [sent |-> out \o <<args.value>>, results |-> rs, outcome |-> NoOutcome]
        ELSE IF res.kind = "raise"
             THEN [sent |-> out \o <<args.value>>, results |-> rs, outcome |-> res]
        ELSE RunAlone(a, resps, i + 1, Append(rs, res.value), out \o <<args.value>>)

\* C10: under any interleaving of concurrent invocations, each invocation has
\* sent the requests, and ends the way, it does when it runs by itself on the
\* responses it received; a free slot holds nothing of another invocation.
C10_InvocationsIndependent ==
    \A p \in Procs :
        IF pc[p] = "idle"
        THEN sent[p] = <<>> /\ results[p] = <<>> /\ outcome[p] = NoOutcome
        ELSE LET alone == RunAlone(call[p], recv[p], 1, <<>>, <<>>)
             IN  /\ sent[p] = alone.sent
                 /\ results[p] = alone.results
                 /\ outcome[p] = alone.outcome

C10_Witness ==
    \E p \in Procs : \E q \in Procs \ {p} :
        /\ call[p].tool = "change_issue_priority"
        /\ pc[p] = "wait"
        /\ Len(recv[p]) = 1
        /\ call[q].tool = "link_issues"
        /\ pc[q] = "done"
        /\ Len(sent[q]) = 2
        /\ outcome[q].kind = "return"


---------------------------------------------------------------------------
(* Claims about the headers, the URL, transport faults and request bodies *)

\* slot p holds a call of jira_api_request by itself
Direct(p) == call[p].tool = "jira_api_request"

\* C11: jira_api_request sends {"Accept": "application/json"} when the caller
\* supplies no headers, and exactly the caller's mapping, never merged with
\* the default, whenever the caller supplies one, for every mapping.
C11_CallerHeadersSentAsGiven ==
    \A p \in Procs :
        (Direct(p) /\ Len(sent[p]) = 1)
            => sent[p][1].headers =
                   (IF call[p].headers = PyNone THEN DefaultHeaders ELSE call[p].headers)


\* the base URL of the environment, parsed
BaseUrl == urlparse(str(getenv("JIRA_BASE_URL")))

\* the path of the base URL up to its last "/"
BaseDir == SubSeq(BaseUrl.path, 1, Len(BaseUrl.path) - 1)

\* the path of the base URL, without a "/" at the end
BasePath ==
    IF BaseUrl.path[Len(BaseUrl.path)] = "" THEN BaseDir ELSE BaseUrl.path

HasScheme(e) == e.scheme # ""

LeadingSlash(e) == e.path[1] = "" /\ Len(e.path) > 1

DotEndpoint == RelPath(<<"issue", "..", "..", "..", "admin">>)

C13_TransportFaultPropagates ==
    [][\A p \in Procs :
          (pc[p] = "wait" /\ recv'[p] = recv[p])
              => /\ pc'[p] = "done"
                 /\ outcome'[p].kind = "raise"
                 /\ outcome'[p].exc \in TransportFaults
                 /\ sent'[p] = sent[p]
                 /\ results'[p] = results[p]]_vars

\* the pre-check request of change_issue_priority timed out: no PUT follows
C13_Witness ==
    \E p \in Procs :
        /\ pc[p] = "done"
        /\ call[p].tool = "change_issue_priority"
        /\ Len(sent[p]) = 1
        /\ recv[p] = <<>>
        /\ outcome[p] = Raise("Timeout")


\* the value jira_api_request returned for the last response slot p received
LastResult(p) == jira_api_response(recv[p][Len(recv[p])]).value

\* C14: the value a registered tool returns is, unmodified, the value
\* jira_api_request returned for the tool's request to Jira (the last one,
\* for a tool that sends two); the one value a tool makes by itself is the
\* 406 descriptor of change_issue_priority for a priority that is not listed.
C14_ToolsReturnHelperValue ==
    \A p \in Procs :
        (pc[p] = "done" /\ outcome[p].kind = "return")
            => IF PriorityNotListed(p)
               THEN outcome[p].value = NotSupportedPriority
               ELSE /\ Len(recv[p]) = Len(sent[p])
                    /\ Len(recv[p]) >= 1
                    /\ outcome[p].value = LastResult(p)

\* link_issues with a comment for the receiver: the comment request was
\* answered 404, the issueLink request 200, and the tool returns the decoded
\* body of the second
C14_Witness ==
    \E p \in Procs :
        /\ pc[p] = "done"
        /\ call[p].tool = "link_issues"
        /\ Len(recv[p]) = 2
        /\ recv[p][1].status_code = 404
        /\ recv[p][2] = Resp(200, "OK", JsonObjectBody)
        /\ outcome[p] = json(recv[p][2])


\* slot p runs tool t and has sent its i-th request
Sent(p, t, i) == call[p].tool = t /\ Len(sent[p]) >= i

\* the URL of endpoint segs under a base URL, appended after its last "/"
UnderBase(segs) == [BaseUrl EXCEPT !.path = BaseDir \o segs]

\* the fields dictionary of the body of the first request of slot p
Fields(p) == sent[p][1].json.v.fields.v

\* key k of fields is there only if argument arg was given, and holds val
OnlyIfProvided(p, k, arg, val) ==
    /\ (arg = PyNone) => k \notin DOMAIN Fields(p)
    /\ (k \in DOMAIN Fields(p)) => (arg # PyNone /\ Fields(p)[k] = val)

\* C15: create_issue sends a POST to issue whose body has fields.description
\* equal to the document {"type":"doc","version":1,"content":[{"type":
\* "paragraph","content":[{"type":"text","text":description}]}]}; each of the
\* keys duedate, assignee, labels, priority and reporter is absent from fields
\* when its argument is not supplied, and present only if it was provided.
C15_CreateIssueBody ==
    \A p \in Procs :
        Sent(p, "create_issue", 1)
            => /\ sent[p][1].method = POST
               /\ sent[p][1].url = UnderBase(<<"issue">>)
               /\ Fields(p).description =
                      PyDict([type |-> PyStr("doc"), version |-> PyInt(1),
                              content |-> PyList(<<
                                  PyDict([type |-> PyStr("paragraph"),
                                          content |-> PyList(<<
                                              PyDict([type |-> PyStr("text"),
                                                      text |-> call[p].description])
                                              >>)]) >>)])
               /\ OnlyIfProvided(p, "duedate", call[p].duedate, call[p].duedate)
               /\ OnlyIfProvided(p, "assignee", call[p].assignee_id,
                                 PyDict([id |-> call[p].assignee_id]))
               /\ OnlyIfProvided(p, "labels", call[p].labels, call[p].labels)
               /\ OnlyIfProvided(p, "priority", call[p].priority_id,
                                 PyDict([id |-> call[p].priority_id]))
               /\ OnlyIfProvided(p, "reporter", call[p].reporter_id,
                                 PyDict([id |-> call[p].reporter_id]))

\* create_issue with an assignee and none of the other four arguments
C15_Witness ==
    \E p \in Procs :
        /\ Sent(p, "create_issue", 1)
        /\ call[p].assignee_id = PyStr("u1")
        /\ call[p].duedate = PyNone
        /\ call[p].labels = PyNone
        /\ call[p].priority_id = PyNone
        /\ call[p].reporter_id = PyNone
        /\ DOMAIN Fields(p) = {"project", "summary", "issuetype", "description", "assignee"}


\* the body {"update": {field: value}}
UpdateBody(field, value) == PyDict([update |-> PyDict(field :> value)])

\* the list [{action: value}]
OneAction(action, value) == PyList(<<PyDict(action :> value)>>)

\* C16: edit_issue(issue_key, value_key, value_to_update, action) sends one
\* PUT to issue/{issue_key}; its body is {"update": {value_key: [{action:
\* value_to_update}]}} when an action is given, and {"update": {value_key:
\* value_to_update}} when none is (action None, or the empty string).
C16_EditIssueBody ==
    \A p \in Procs :
        Sent(p, "edit_issue", 1)
            => /\ Len(sent[p]) = 1
               /\ sent[p][1].method = PUT
               /\ sent[p][1].url = UnderBase(<<"issue", call[p].issue_key.v>>)
               /\ sent[p][1].json =
                      (IF call[p].action \in {PyNone, PyStr("")}
                       THEN UpdateBody(call[p].value_key, call[p].value_to_update)
                       ELSE UpdateBody(call[p].value_key,
                                OneAction(call[p].action.v, call[p].value_to_update)))

\* edit_issue("ABC-1", "labels", "v", "add")
C16_Witness ==
    \E p \in Procs :
        /\ Sent(p, "edit_issue", 1)
        /\ call[p].action = PyStr("add")
        /\ call[p].value_key = "labels"
        /\ call[p].value_to_update = PyStr("v")
        /\ sent[p][1].json.v.update.v.labels.v[1].v.add = PyStr("v")


\* the body of request req is {"update": {"labels": [{action: l1}, ...,
\* {action: ln}]}} for the list labels = [l1, ..., ln]
LabelsBody(req, action, labels) ==
    /\ DOMAIN req.json.v = {"update"}
    /\ DOMAIN req.json.v.update.v = {"labels"}
    /\ LET entries == req.json.v.update.v.labels
       IN  /\ entries.t = "list"
           /\ Len(entries.v) = Len(labels.v)
           /\ \A i \in 1..Len(labels.v) : entries.v[i] = PyDict(action :> labels.v[i])

\* C17: add_issue_labels(key, labels) sends the body {"update": {"labels":
\* [{"add": l1}, ..., {"add": ln}]}} and remove_issue_labels(key, labels) the
\* same with "remove": one entry per input label, in input order, duplicates
\* kept, for every list of labels, the empty list included.
C17_LabelEntriesPerLabel ==
    \A p \in Procs :
        /\ Sent(p, "add_issue_labels", 1)
              => LabelsBody(sent[p][1], "add", call[p].new_labels)
        /\ Sent(p, "remove_issue_labels", 1)
              => LabelsBody(sent[p][1], "remove", call[p].labels)

\* remove_issue_labels("ABC-1", ["b", "b"]): the label is sent twice
C17_Witness ==
    \E p \in Procs :
        /\ Sent(p, "remove_issue_labels", 1)
        /\ call[p].labels = PyList(<<PyStr("b"), PyStr("b")>>)
        /\ sent[p][1].json.v.update.v.labels.v =
               <<PyDict([remove |-> PyStr("b")]), PyDict([remove |-> PyStr("b")])>>


\* the document that holds text in one text node of one paragraph
Document(text) ==
    LET node == PyDict([type |-> PyStr("text"), text |-> text])
        paragraph == PyDict([type |-> PyStr("paragraph"), content |-> PyList(<<node>>)])
    IN  PyDict([type |-> PyStr("doc"), version |-> PyInt(1),
                content |-> PyList(<<paragraph>>)])

\* request req is a PUT to issue/{key} with body {"update": {F: [{"set": V}]}}
SetRequest(req, key, F, V) ==
    /\ req.method = PUT
    /\ req.url = UnderBase(<<"issue", key.v>>)
    /\ req.json = UpdateBody(F, OneAction("set", V))

\* C18: change_issue_title, change_issue_description, change_issue_reporter,
\* change_issue_priority (when the priority is accepted),
\* change_issue_environment, update_issue_duedate and change_issue_labels each
\* send a PUT to issue/{key} with body {"update": {F: [{"set": V}]}}, F being
\* summary, description, reporter, priority, environment, duedate, labels, and
\* V the title, the document of the description, the user, the priority, the
\* document of the environment, the date, the list of labels.
C18_SetFieldTools ==
    \A p \in Procs :
        /\ Sent(p, "change_issue_title", 1)
              => SetRequest(sent[p][1], call[p].issue_key, "summary", call[p].new_title)
        /\ Sent(p, "change_issue_description", 1)
              => SetRequest(sent[p][1], call[p].issue_key, "description",
                            Document(call[p].new_description))
        /\ Sent(p, "change_issue_reporter", 1)
              => SetRequest(sent[p][1], call[p].issue_key, "reporter", call[p].user)
        /\ Sent(p, "change_issue_priority", 2)
              => SetRequest(sent[p][2], call[p].issue_key, "priority", call[p].new_priority)
        /\ Sent(p, "change_issue_environment", 1)
              => SetRequest(sent[p][1], call[p].issue_key, "environment",
                            Document(call[p].new_environment))
        /\ Sent(p, "update_issue_duedate", 1)
              => SetRequest(sent[p][1], call[p].issue_key, "duedate", call[p].new_duedate)
        /\ Sent(p, "change_issue_labels", 1)
              => SetRequest(sent[p][1], call[p].issue_key, "labels", call[p].new_labels)

\* change_issue_priority with a listed priority has sent its PUT
C18_Witness ==
    \E p \in Procs :
        /\ Sent(p, "change_issue_priority", 2)
        /\ call[p].new_priority = PriorityHigh
        /\ sent[p][2].method = PUT
        /\ sent[p][2].json.v.update.v.priority.v[1].v.set = PriorityHigh


\* a comment was given: a string that is not empty
Given(comment) == comment \notin {PyNone, PyStr("")}

\* request req is the POST to issueLink of invocation a
LinkRequest(req, a) ==
    /\ req.method = POST
    /\ req.url = UnderBase(<<"issueLink">>)
    /\ DOMAIN req.json.v =
           {"inwardIssue", "outwardIssue", "type"} \cup
           (IF Given(a.comment_on_action_issue) THEN {"comment"} ELSE {})
    /\ req.json.v.inwardIssue = PyDict([key |-> a.action_issue])
    /\ req.json.v.outwardIssue = PyDict([key |-> a.receiver_issue])
    /\ req.json.v.type = PyDict([name |-> a.link_type])
    /\ Given(a.comment_on_action_issue)
          => req.json.v.comment = PyDict([body |-> Document(a.comment_on_action_issue)])

\* request req is the POST of a comment to issue/{key}/comment
CommentRequest(req, key, comment) ==
    /\ req.method = POST
    /\ req.url = UnderBase(<<"issue", key.v, "comment">>)
    /\ req.json = PyDict([body |-> Document(comment)])

\* C19: link_issues sends a POST to issueLink with body {inwardIssue: {key:
\* action_issue}, outwardIssue: {key: receiver_issue}, type: {name:
\* link_type}}.  A comment for the receiver issue is never in that body: it is
\* sent before, by a POST of its own to issue/{receiver_issue}/comment.  A
\* comment for the action issue is in the issueLink body, under the key
\* comment.
C19_LinkIssuesRequests ==
    \A p \in Procs :
        Sent(p, "link_issues", 1)
            => LET a == call[p]
                   n == IF Given(a.comment_on_receiver_issue) THEN 2 ELSE 1
               IN  /\ Len(sent[p]) <= n
                   /\ (n = 2) => CommentRequest(sent[p][1], a.receiver_issue,
                                                a.comment_on_receiver_issue)
                   /\ (Len(sent[p]) = n) => LinkRequest(sent[p][n], a)
                   /\ (pc[p] = "done" /\ outcome[p].kind = "return") => Len(sent[p]) = n

\* link_issues with both comments has sent the comment, then the link
C19_Witness ==
    \E p \in Procs :
        /\ Sent(p, "link_issues", 2)
        /\ call[p].comment_on_action_issue = PyStr("note")
        /\ call[p].comment_on_receiver_issue = PyStr("reply")
        /\ sent[p][1].url.path = <<"", "rest", "api", "3", "issue", "ABC-2", "comment">>
        /\ sent[p][2].url.path = <<"", "rest", "api", "3", "issueLink">>
        /\ "comment" \in DOMAIN sent[p][2].json.v


\* d is {type: "doc", version: 1, content: [{type: "paragraph", content:
\* [{type: "text", text: text}]}]}: no other key, one paragraph, one text node
IsDocumentOf(d, text) ==
    /\ d.t = "dict"
    /\ DOMAIN d.v = {"type", "version", "content"}
    /\ d.v.type = PyStr("doc")
    /\ d.v.version = PyInt(1)
    /\ d.v.content.t = "list"
    /\ Len(d.v.content.v) = 1
    /\ LET paragraph == d.v.content.v[1]
       IN  /\ DOMAIN paragraph.v = {"type", "content"}
           /\ paragraph.v.type = PyStr("paragraph")
           /\ paragraph.v.content.t = "list"
           /\ Len(paragraph.v.content.v) = 1
           /\ LET node == paragraph.v.content.v[1]
              IN  /\ DOMAIN node.v = {"type", "text"}
                  /\ node.v.type = PyStr("text")
                  /\ node.v.text = text

\* the value set for field F by the first request of slot p
SetValue(p, F) == sent[p][1].json.v.update.v[F].v[1].v.set

\* C20: every text sent for a description, a comment or an environment field
\* (create_issue, change_issue_description, change_issue_environment,
\* comment_issue, the action-issue comment of link_issues) is wrapped in
\* exactly {type: "doc", version: 1, content: [{type: "paragraph", content:
\* [{type: "text", text: <input>}]}]}: the input string unchanged, in a single
\* text node of a single paragraph, for every input string.
C20_TextWrappedInDocument ==
    \A p \in Procs :
        /\ Sent(p, "create_issue", 1)
              => IsDocumentOf(Fields(p).description, call[p].description)
        /\ Sent(p, "change_issue_description", 1)
              => IsDocumentOf(SetValue(p, "description"), call[p].new_description)
        /\ Sent(p, "change_issue_environment", 1)
              => IsDocumentOf(SetValue(p, "environment"), call[p].new_environment)
        /\ Sent(p, "comment_issue", 1)
              => IsDocumentOf(sent[p][1].json.v.body, call[p].comment)
        /\ \A i \in 1..Len(sent[p]) :
              (call[p].tool = "link_issues" /\ "comment" \in DOMAIN sent[p][i].json.v)
                  => IsDocumentOf(sent[p][i].json.v.comment.v.body,
                                  call[p].comment_on_action_issue)

\* change_issue_environment with the empty string: the one text node holds it
C20_Witness ==
    \E p \in Procs :
        /\ Sent(p, "change_issue_environment", 1)
        /\ call[p].new_environment = PyStr("")
        /\ SetValue(p, "environment").v.content.v[1].v.content.v[1].v.text = PyStr("")


\* the first request of slot p has this method, endpoint, query and body
PlainRequest(p, method, segs, params, body) ==
    /\ Len(sent[p]) = 1
    /\ sent[p][1].method = method
    /\ sent[p][1].url = UnderBase(segs)
    /\ sent[p][1].params = params
    /\ sent[p][1].json = body

\* the query {"maxResults": n}
MaxResults(n) == PyDict([maxResults |-> n])

\* C21: each tool that is a single request with no body shaping uses the
\* method, endpoint and query parameter of the table: GET project, GET
\* priority, GET label?maxResults, GET status, GET myself, GET
\* user/assignable/multiProjectSearch?projectKeys, GET
\* issue/picker?currentProjectId, GET issue/createmeta/{project}/issuetypes
\* ?maxResults, GET issue/createmeta/{project}/issuetypes/{type}?maxResults,
\* GET issueLinkType, GET issue/{key} with the caller's query parameters,
\* DELETE issueLink/{id}, DELETE issue/{key}, PUT issue/{key}/assignee with
\* the user object as body; the GET and DELETE requests carry no JSON body.
C21_PlainToolsTable ==
    \A p \in Procs :
        LET a == call[p]
            T(t) == Sent(p, t, 1)
        IN  /\ T("get_projects") => PlainRequest(p, GET, <<"project">>, PyNone, PyNone)
            /\ T("get_priorities") => PlainRequest(p, GET, <<"priority">>, PyNone, PyNone)
            /\ T("get_labels")
                  => PlainRequest(p, GET, <<"label">>, MaxResults(a.max_results), PyNone)
            /\ T("get_issue_statuses") => PlainRequest(p, GET, <<"status">>, PyNone, PyNone)
            /\ T("get_current_user") => PlainRequest(p, GET, <<"myself">>, PyNone, PyNone)
            /\ T("get_project_users")
                  => PlainRequest(p, GET, <<"user", "assignable", "multiProjectSearch">>,
                                  PyDict([projectKeys |-> a.project_keys]), PyNone)
            /\ T("get_project_issues")
                  => PlainRequest(p, GET, <<"issue", "picker">>,
                                  PyDict([currentProjectId |-> a.project_key]), PyNone)
            /\ T("get_project_issue_types")
                  => PlainRequest(p, GET,
                                  <<"issue", "createmeta", a.project_key.v, "issuetypes">>,
                                  MaxResults(a.max_results), PyNone)
            /\ T("get_issue_creation_metadata")
                  => PlainRequest(p, GET,
                                  <<"issue", "createmeta", a.project_key.v, "issuetypes",
                                    a.issue_type_id.v>>,
                                  MaxResults(a.max_results), PyNone)
            /\ T("get_issue_link_types")
                  => PlainRequest(p, GET, <<"issueLinkType">>, PyNone, PyNone)
            /\ T("get_issue")
                  => PlainRequest(p, GET, <<"issue", a.issue_key.v>>, a.query_params, PyNone)
            /\ T("delete_issues_link")
                  => PlainRequest(p, DELETE, <<"issueLink", a.link_id.v>>, PyNone, PyNone)
            /\ T("delete_issue")
                  => PlainRequest(p, DELETE, <<"issue", a.issue_key.v>>, PyNone, PyNone)
            /\ T("assign_issue")
                  => PlainRequest(p, PUT, <<"issue", a.issue_key.v, "assignee">>,
                                  PyNone, a.user)

\* get_issue_creation_metadata("PRJ", "10001", 10) has sent its request
C21_Witness ==
    \E p \in Procs :
        /\ Sent(p, "get_issue_creation_metadata", 1)
        /\ call[p].max_results = PyInt(10)
        /\ sent[p][1].method = GET
        /\ sent[p][1].url.path =
               <<"", "rest", "api", "3", "issue", "createmeta", "PRJ", "issuetypes", "10001">>
        /\ sent[p][1].params = PyDict([maxResults |-> PyInt(10)])


\* C22: when link_issues is called with a comment for the receiver issue, the
\* comment POST to issue/{receiver_issue}/comment is sent before the
\* issueLink POST; the issueLink POST is sent whatever the comment request
\* returned; the value returned is the result of the issueLink request alone;
\* and nothing is sent after the issueLink request, so the comment is not
\* undone when that request fails.
C22_CommentThenLinkWhateverReturned ==
    \A p \in Procs :
        (Sent(p, "link_issues", 1) /\ Given(call[p].comment_on_receiver_issue))
            => /\ CommentRequest(sent[p][1], call[p].receiver_issue,
                                 call[p].comment_on_receiver_issue)
               /\ Len(recv[p]) >= 1
                     => (Len(sent[p]) = 2 /\ LinkRequest(sent[p][2], call[p]))
               /\ (pc[p] = "done" /\ outcome[p].kind = "return")
                     => (Len(recv[p]) = 2 /\ outcome[p].value = LastResult(p))
               /\ \A i \in 1..Len(sent[p]) : sent[p][i].method = POST

\* the comment request was answered 404 and the issueLink request 401: both
\* were sent, and the descriptor of the 401 is what link_issues returns
C22_Witness ==
    \E p \in Procs :
        /\ Finished(p, "link_issues",
                    <<Resp(404, "Not Found", "not found"),
                      Resp(401, "Unauthorized", ErrorJsonBody)>>)
        /\ Given(call[p].comment_on_receiver_issue)
        /\ Len(sent[p]) = 2
        /\ outcome[p] = Return(DescriptorWith(FALSE, recv[p][2]))


---------------------------------------------------------------------------
(* Claims about start-up, the reach of the credentials, and arguments     *)

\* C23: the credentials object is built from JIRA_USER and JIRA_API_KEY after
\* load_dotenv() has filled the environment, so every request carries the
\* credentials the environment holds once start-up is over, those defined in
\* the .env file alone included.
C23_CredentialsFromLoadedEnvironment ==
    \A p \in Procs : \A i \in 1..Len(sent[p]) :
        sent[p][i].auth = [username |-> startEnviron["JIRA_USER"],
                           password |-> startEnviron["JIRA_API_KEY"]]


\* sequence pre is the beginning of sequence path
BeginsWith(path, pre) == Len(path) >= Len(pre) /\ SubSeq(path, 1, Len(pre)) = pre

\* C24: for every registered tool and every string given as issue key,
\* project key, issue type id or link id, the request that carries the
\* credentials stays inside the configured API root: its URL has the scheme
\* and host of JIRA_BASE_URL and a path that begins with the base URL's path.
C24_RequestsStayInApiRoot ==
    \A p \in Procs : \A i \in 1..Len(sent[p]) :
        /\ sent[p][i].url.scheme = BaseUrl.scheme
        /\ sent[p][i].url.netloc = BaseUrl.netloc
        /\ BeginsWith(sent[p][i].url.path, BasePath)


\* argument x was supplied with a value that is not empty
NonEmpty(x) ==
    /\ x.t # "None"
    /\ x.t = "str" => x.v # ""
    /\ x.t = "list" => Len(x.v) > 0

\* key k is in fields, with value val, exactly when argument arg is not empty
PresentIffNonEmpty(p, k, arg, val) ==
    /\ (k \in DOMAIN Fields(p)) <=> NonEmpty(arg)
    /\ NonEmpty(arg) => Fields(p)[k] = val

\* C25: in create_issue every optional argument supplied with a non-empty
\* value is in fields with its shape (duedate: value, assignee: {id}, labels:
\* list, priority: {id}, reporter: {id}), whatever the other optional
\* arguments are; an optional argument supplied as an empty string or an empty
\* list is treated like one that was not supplied: its key is left out.
C25_OptionalFieldsByEmptiness ==
    \A p \in Procs :
        Sent(p, "create_issue", 1)
            => LET a == call[p]
               IN  /\ PresentIffNonEmpty(p, "duedate", a.duedate, a.duedate)
                   /\ PresentIffNonEmpty(p, "assignee", a.assignee_id,
                                         PyDict([id |-> a.assignee_id]))
                   /\ PresentIffNonEmpty(p, "labels", a.labels, a.labels)
                   /\ PresentIffNonEmpty(p, "priority", a.priority_id,
                                         PyDict([id |-> a.priority_id]))
                   /\ PresentIffNonEmpty(p, "reporter", a.reporter_id,
                                         PyDict([id |-> a.reporter_id]))
                   /\ DOMAIN Fields(p) \subseteq
                          {"project", "summary", "issuetype", "description", "duedate",
                           "assignee", "labels", "priority", "reporter"}

\* create_issue with duedate "" and labels []: only the priority, which has a
\* value, is added to the four fixed keys
C25_Witness ==
    \E p \in Procs :
        /\ Sent(p, "create_issue", 1)
        /\ call[p].duedate = PyStr("")
        /\ call[p].labels = PyList(<<>>)
        /\ call[p].priority_id = PyStr("3")
        /\ call[p].assignee_id = PyNone
        /\ call[p].reporter_id = PyNone
        /\ DOMAIN Fields(p) = {"project", "summary", "issuetype", "description", "priority"}
        /\ Fields(p).priority = PyDict([id |-> PyStr("3")])


\* invocation a lacks a key its tool reads from an argument
LacksKey(a) ==
    \/ a.tool = "change_issue_priority" /\ "name" \notin DOMAIN a.new_priority.v
    \/ a.tool \in {"change_issue_reporter", "assign_issue"}
          /\ "displayName" \notin DOMAIN a.user.v

\* C26: a tool invocation that fails on its own arguments or configuration
\* (change_issue_priority with a priority without name, change_issue_reporter
\* or assign_issue with a user without displayName, any tool called while
\* REQUESTS_TIMEOUT is unset) raises before any HTTP request has been sent.
C26_FailsBeforeAnyRequest ==
    [][\A p \in Procs :
          (/\ pc[p] = "idle"
           /\ pc'[p] # "idle"
           /\ (LacksKey(call'[p]) \/ environ["REQUESTS_TIMEOUT"] = Absent))
              => /\ pc'[p] = "done"
                 /\ outcome'[p].kind = "raise"
                 /\ outcome'[p].exc \in {"KeyError", "TypeError"}
                 /\ sent'[p] = <<>>]_vars

\* create_issue was called while REQUESTS_TIMEOUT was unset: TypeError, and
\* nothing was sent
C26_Witness ==
    \E p \in Procs :
        /\ pc[p] = "done"
        /\ call[p].tool = "create_issue"
        /\ environ["REQUESTS_TIMEOUT"] = Absent
        /\ outcome[p] = Raise("TypeError")
        /\ sent[p] = <<>>


\* the handler setup_logging installs under the LOG_FILE of the environment
ExpectedHandler ==
    IF logEnviron["LOG_FILE"] \in {Absent, ""}
    THEN [class |-> "StreamHandler", stream |-> "stderr", formatter |-> LogFormat]
    ELSE [class |-> "FileHandler", baseFilename |-> <<"logs", logEnviron["LOG_FILE"]>>,
          formatter |-> LogFormat]

====
